---------------------------- MODULE Spec2Model ----------------------------
(***************************************************************************)
(* Quantum Foam RNG: the generation run (src/free.py, embedded again in    *)
(* src/app.py and src/pro.py) behind the HTTP route of src/app.py, the     *)
(* per-basis bit/statistic extraction, the job lifecycle manager, the     *)
(* license manager of src/license_server.py, the client library of        *)
(* src/quantum_foam_pro.py and the certificates of src/pro.py.             *)
(*                                                                         *)
(* Nine specifications share the module:                                   *)
(*   Spec         one request to /api/v1/generate, step by step            *)
(*   SpecBackend  the same run with the backend ending its jobs on its own *)
(*   SpecExtract  the extraction of one histogram (a pure function)        *)
(*   SpecJobs     the job table (createJob / runJob / getJob)              *)
(*   SpecLicense  create / revoke / validate on the license table          *)
(*   SpecUsage    the same table with check_rate_limit / record_usage      *)
(*   SpecProtocol callers that check the rate limit, then record a request *)
(*   SpecInteger  one call of generate_random_integer (a pure function)    *)
(*   SpecCertificate  one call of verify_certificate (a pure function)     *)
(***************************************************************************)
EXTENDS Integers, Sequences, FiniteSets, TLC

VARIABLES
    \* ---- one request to /api/v1/generate (Spec) ----
    pc,                  \* position of the route handler
    route,               \* the route serving the request: "generate" or "key"
    body,                \* the "bits" and "theta" values the request carries
    n_bits,              \* parsed "bits" parameter
    theta,               \* parsed "theta" parameter, in tenths of a degree
    jobs,                \* generate_entropy: jobs, the bases submitted so far
    submitLog,           \* history: outcome of each device.run call, in order
    collectLog,          \* history: outcome of each job.result call, in order
    all_bits,            \* generate_entropy: all_bits
    expectation_values,  \* generate_entropy: expectation_values
    result,              \* what generate_entropy returned
    response,            \* what the route returned
    escaped,             \* an exception left the route's try/except
    \* ---- extraction of one histogram (SpecExtract) ----
    hist,                \* the histogram under extraction
    ext,                 \* the extractor's output for hist
    \* ---- job table (SpecJobs) ----
    table,               \* job id -> job record
    nextId,              \* next identifier createJob allocates
    lock,                \* job whose writer holds the table's lock, 0 when free
    snapshot,            \* what the last getJob returned
    \* ---- the backend's side of the submitted jobs (SpecBackend) ----
    backend,             \* basis -> state of the job submitted for it
    order,               \* history: the bases in the order their jobs ended
    \* ---- the license manager of license_server.py (SpecLicense) ----
    licenses,            \* LicenseManager.licenses: key -> License
    now,                 \* datetime.now(), in days
    call,                \* the last call of a LicenseManager method and its return
    \* ---- callers of check_rate_limit / record_usage (SpecProtocol) ----
    callers,             \* caller -> "idle", or "may_record" after has_quota = True
    \* ---- one call of a function (SpecInteger, SpecCertificate) ----
    args,                \* the arguments of the call
    outcome              \* what the call returned or raised

runVars == <<pc, route, body, n_bits, theta, jobs, submitLog, collectLog, all_bits,
             expectation_values, result, response, escaped>>
extVars == <<hist, ext>>
jobVars == <<table, nextId, lock, snapshot>>
bkVars == <<backend, order>>
licVars == <<licenses, now, call>>
protoVars == <<callers>>
fnVars == <<args, outcome>>
vars == <<runVars, extVars, jobVars, bkVars, licVars, protoVars,
          fnVars>>

-----------------------------------------------------------------------------
(* Bounds of the model *)

\* number of entries of self.bases (9 in the free edition, 75 in the licensed one)
NumBases == 3
\* largest "bits" value a request asks for, besides the out-of-range ones
MaxBits == 7
\* largest count of one outcome in a histogram under extraction
MaxCount == 2
\* largest number of distinct outcome labels in a histogram under extraction
MaxKeys == 2
\* number of jobs createJob may create
MaxJobs == 2
\* number of keys the license table may hold
MaxLicenses == 1
\* number of callers of check_rate_limit / record_usage
NumCallers == 3
\* requests left in the month when the callers start
StartBelow == 8
\* last day of the license manager's clock
MaxDay == 2
\* last day of the clock where usage is recorded
MaxUsageDay == 31
\* record_usage stops when the counter would pass this many monthly quotas
MaxFills == 2
\* largest magnitude of min_val and max_val
MaxVal == 3

(* Program constants *)

\* if n_bits < 1 or n_bits > 2048
ApiMaxBits == 2048
\* if theta < 0 or theta > 90
ApiMaxTheta == 90
\* generate_crypto_key: self.generate_entropy(n_bits=256, ...)
KeyBits == 256
\* def generate_entropy(self, n_bits=256, theta=45, ...)
DefaultTheta == 45
\* n_bits = int(data.get('bits', 256))
RouteDefaultBits == 256
\* self.tier_limits: requests per month of each tier
FreeLimit == 1000
ProLimit == 100000
EnterpriseLimit == 10000000
\* if (now - license.last_reset).days >= 30
ResetDays == 30
\* theta = float(data.get('theta', 45))
RouteDefaultTheta == 45
\* if std_exp < 0.03, in hundredths
WeakFoam == 3
\* if self.licensed and std_exp < 0.3, in hundredths
ProFoam == 30

-----------------------------------------------------------------------------
(* Outcome labels and histograms.  A histogram is a Python dict: a sequence *)
(* of (label, count) entries with distinct labels, in insertion order.  A  *)
(* label is an int or a str (a sequence of characters).                    *)

Chars == {"0", "1", "2", "3"}

IntLabel(n) == [kind |-> "int", n |-> n, s |-> <<>>]

StrLabel(s) == [kind |-> "str", n |-> 0, s |-> s]

IntLabels == {IntLabel(n) : n \in {0, 1, 2, 3, 5}}

StrLabels ==
    {StrLabel(<<c>>) : c \in Chars}
      \cup {StrLabel(<<a, b>>) : a \in {"0", "1"}, b \in {"0", "1"}}
      \cup {StrLabel(<<"1", "0", "1">>)}

Labels == IntLabels \cup StrLabels

Entry(l, c) == [label |-> l, count |-> c]

IsDict(h) == \A i, j \in DOMAIN h : h[i].label = h[j].label => i = j

Histograms ==
    {h \in UNION {[1..k -> {Entry(l, c) : l \in Labels, c \in 0..MaxCount}]
                    : k \in 0..MaxKeys} : IsDict(h)}

-----------------------------------------------------------------------------
(* Bit extraction: free.py 135-144 *)

\* int(b) for a character b
CharVal(c) == CASE c = "0" -> 0 [] c = "1" -> 1 [] c = "2" -> 2 [] c = "3" -> 3

DigitChar(d) == IF d = 0 THEN "0" ELSE "1"

RECURSIVE BinDigits(_)
BinDigits(n) ==
    IF n < 2 THEN <<DigitChar(n)>>
    ELSE Append(BinDigits(n \div 2), DigitChar(n % 2))

\* format(outcome, '02b')
Format02b(n) ==
    LET d == BinDigits(n) IN IF Len(d) < 2 THEN <<"0">> \o d ELSE d

\* outcome_str
OutcomeStr(label) ==
    IF label.kind = "int" THEN Format02b(label.n) ELSE label.s

\* outcome_str[-2:]
Last2(s) == IF Len(s) <= 2 THEN s ELSE SubSeq(s, Len(s) - 1, Len(s))

\* bits = [int(b) for b in outcome_str[-2:]]
OutcomeBits(label) ==
    LET t == Last2(OutcomeStr(label)) IN [i \in 1..Len(t) |-> CharVal(t[i])]

\* bits * count
RECURSIVE Repeat(_, _)
Repeat(bits, count) ==
    IF count <= 0 THEN <<>> ELSE bits \o Repeat(bits, count - 1)

\* for outcome, count in counts.items(): all_bits.extend(bits * count)
RECURSIVE ExtractBits(_)
ExtractBits(h) ==
    IF h = <<>> THEN <<>>
    ELSE Repeat(OutcomeBits(Head(h).label), Head(h).count) \o ExtractBits(Tail(h))

-----------------------------------------------------------------------------
(* Expectation value: free.py 146-154 *)

\* counts.get(key, 0)
Get(h, key) ==
    LET at == {i \in DOMAIN h : h[i].label = key}
    IN  IF at = {} THEN 0 ELSE h[CHOOSE i \in at : TRUE].count

\* total = sum(counts.values())
RECURSIVE SumValues(_)
SumValues(h) == IF h = <<>> THEN 0 ELSE Head(h).count + SumValues(Tail(h))

\* a slip: len(counts) in place of sum(counts.values())
Total_LenOfDict(h) == Len(h)

Total(h) == SumValues(h)

N00(h) ==
    Get(h, StrLabel(<<"0", "0">>)) + Get(h, StrLabel(<<"0">>)) + Get(h, IntLabel(0))

\* a slip: the '3' encoding of outcome 11 left out
N11_WithoutStr3(h) == Get(h, StrLabel(<<"1", "1">>)) + Get(h, IntLabel(3))

N11(h) ==
    Get(h, StrLabel(<<"1", "1">>)) + Get(h, StrLabel(<<"3">>)) + Get(h, IntLabel(3))

N01(h) ==
    Get(h, StrLabel(<<"0", "1">>)) + Get(h, StrLabel(<<"1">>)) + Get(h, IntLabel(1))

N10(h) ==
    Get(h, StrLabel(<<"1", "0">>)) + Get(h, StrLabel(<<"2">>)) + Get(h, IntLabel(2))

\* exp_val = (n_00 + n_11 - n_01 - n_10) / total, a fraction num/den;
\* Python raises ZeroDivisionError when total is 0
ExpVal(h) ==
    IF Total(h) = 0
    THEN [ok |-> FALSE, num |-> 0, den |-> 0]
    ELSE [ok |-> TRUE, num |-> N00(h) + N11(h) - N01(h) - N10(h), den |-> Total(h)]

\* one pass of the collection loop body over the histogram of one basis
Extract(h) == [bits |-> ExtractBits(h), exp |-> ExpVal(h)]

-----------------------------------------------------------------------------
(* SpecExtract: the extractor applied to every bounded histogram *)

\* a value of the request's JSON body or query string: its kind and, for a
\* number or a numeric string, its value in tenths
Absent == [kind |-> "absent", tenths |-> 0]

IntValue(n) == [kind |-> "int", tenths |-> 10 * n]

FloatValue(t) == [kind |-> "float", tenths |-> t]

Infinity == [kind |-> "inf", tenths |-> 0]

DecimalString(t) == [kind |-> "decstr", tenths |-> t]

NoBody == [bits |-> Absent, theta |-> Absent]

NoResult == [returned |-> FALSE, bits |-> <<>>, hex |-> <<>>]

NoResponse == [code |-> 0, success |-> FALSE, hasEntropy |-> FALSE,
               entropy |-> <<>>, error |-> "none"]

NoExt == [done |-> FALSE, bits |-> <<>>, exp |-> [ok |-> FALSE, num |-> 0, den |-> 0]]

RunIdle ==
    /\ pc = "off"
    /\ route = "none"
    /\ body = NoBody
    /\ n_bits = 0
    /\ theta = 0
    /\ jobs = <<>>
    /\ submitLog = <<>>
    /\ collectLog = <<>>
    /\ all_bits = <<>>
    /\ expectation_values = <<>>
    /\ result = NoResult
    /\ response = NoResponse
    /\ escaped = FALSE

JobsIdle ==
    /\ table = <<>>
    /\ nextId = 1
    /\ lock = 0
    /\ snapshot = [found |-> FALSE, status |-> "none", hasKey |-> FALSE,
                   hasError |-> FALSE]

ExtIdle ==
    /\ hist = <<>>
    /\ ext = NoExt

\* a job the backend has not ended yet: job.result() does not return for it
Queued == [state |-> "queued", counts |-> <<>>]

BackendIdle ==
    /\ backend = [i \in 1..NumBases |-> Queued]
    /\ order = <<>>

NoCall == [op |-> "none"]

Callers == 1..NumCallers

CallersIdle == callers = [c \in Callers |-> "idle"]

NoArgs == [fn |-> "none"]

NoOutcome == [done |-> FALSE]

FnIdle ==
    /\ args = NoArgs
    /\ outcome = NoOutcome

\* LicenseManager.__init__: self.licenses = {}
LicenseIdle ==
    /\ licenses = <<>>
    /\ now = 0
    /\ call = NoCall

InitExtract ==
    /\ RunIdle
    /\ JobsIdle
    /\ BackendIdle
    /\ LicenseIdle
    /\ CallersIdle
    /\ FnIdle
    /\ hist \in Histograms
    /\ ext = NoExt

ApplyExtract ==
    /\ ~ext.done
    /\ ext' = [done |-> TRUE, bits |-> Extract(hist).bits, exp |-> Extract(hist).exp]
    /\ UNCHANGED <<hist, runVars, jobVars, bkVars, licVars, protoVars, fnVars>>

NextExtract == ApplyExtract

SpecExtract == InitExtract /\ [][NextExtract]_vars

-----------------------------------------------------------------------------
(* The generation run: generate_entropy of free.py (76-201), called by the  *)
(* route /api/v1/generate of app.py (246-315)                               *)

\* self.bases, by position
Bases == 1..NumBases

\* shots_per_basis = int(np.ceil(n_bits / (2 * len(self.bases))))
ShotsPerBasis(n) == (n + 2 * NumBases - 1) \div (2 * NumBases)

\* the "bits" and "theta" values a request carries: integers, the JSON
\* numbers 2048.5 and 1e999, the query string "0.5", or nothing
ReqBits ==
    {IntValue(n) : n \in (0..MaxBits) \cup {ApiMaxBits + 1}}
        \cup {FloatValue(10 * ApiMaxBits + 5), Infinity, DecimalString(5), Absent}

ReqThetas == {IntValue(-1), Absent, FloatValue(10 * ApiMaxTheta + 5)}

\* int(x): a float is truncated toward zero, an infinite float raises
\* OverflowError, a string that is no integer literal raises ValueError
IntOf(v) ==
    CASE v.kind = "int" -> [exc |-> "none", n |-> v.tenths \div 10]
      [] v.kind = "float" ->
            [exc |-> "none",
             n |-> IF v.tenths >= 0 THEN v.tenths \div 10 ELSE -((-v.tenths) \div 10)]
      [] v.kind = "inf" -> [exc |-> "OverflowError", n |-> 0]
      [] v.kind = "decstr" -> [exc |-> "ValueError", n |-> 0]
      [] v.kind = "absent" -> [exc |-> "none", n |-> RouteDefaultBits]

\* try: n_bits = int(data.get('bits', 256))
\* except (ValueError, TypeError): n_bits = 256
ParseBits(v) ==
    IF IntOf(v).exc \in {"ValueError", "TypeError"} THEN RouteDefaultBits ELSE IntOf(v).n

\* float(x), in tenths: a number or a numeric string keeps its value
FloatOf(v) ==
    CASE v.kind \in {"int", "float", "decstr"} -> [exc |-> "none", t |-> v.tenths]
      [] v.kind = "absent" -> [exc |-> "none", t |-> 10 * RouteDefaultTheta]

\* try: theta = float(data.get('theta', 45))
\* except (ValueError, TypeError): theta = 45
ParseTheta(v) ==
    IF FloatOf(v).exc \in {"ValueError", "TypeError"}
    THEN 10 * RouteDefaultTheta
    ELSE FloatOf(v).t

\* histograms the backend returns for one basis
H_00_11 == <<Entry(StrLabel(<<"0", "0">>), 1), Entry(StrLabel(<<"1", "1">>), 1)>>

H_01_10 == <<Entry(StrLabel(<<"0", "1">>), 1), Entry(StrLabel(<<"1", "0">>), 1)>>

H_00 == <<Entry(StrLabel(<<"0", "0">>), 1)>>

H_int3 == <<Entry(IntLabel(3), 2)>>

H_str1 == <<Entry(StrLabel(<<"1">>), 2)>>

H_str3 == <<Entry(StrLabel(<<"3">>), 1)>>

H_empty == <<>>

H_zero == <<Entry(StrLabel(<<"0", "0">>), 0)>>

BackendHistograms ==
    {H_00_11, H_01_10, H_00, H_int3, H_str1, H_str3, H_empty, H_zero}

\* all_bits[:n_bits]
Take(s, n) == IF Len(s) <= n THEN s ELSE SubSeq(s, 1, n)

\* int(bit_string, 2) raises ValueError on '' and on a digit other than 0 and 1
IsBinary(bits) == bits # <<>> /\ \A i \in DOMAIN bits : bits[i] \in {0, 1}

RECURSIVE BinValue(_)
BinValue(bits) ==
    IF bits = <<>> THEN 0
    ELSE 2 * BinValue(SubSeq(bits, 1, Len(bits) - 1)) + bits[Len(bits)]

\* hex(v)[2:], a sequence of hex digits 0..15
RECURSIVE HexDigits(_)
HexDigits(v) ==
    IF v < 16 THEN <<v>> ELSE Append(HexDigits(v \div 16), v % 16)

\* s.zfill(w)
ZFill(s, w) == IF Len(s) >= w THEN s ELSE [i \in 1..(w - Len(s)) |-> 0] \o s

\* hex(int(bit_string, 2))[2:].zfill(n_bits // 4)
HexString(bits, n) == ZFill(HexDigits(BinValue(bits)), n \div 4)

\* except clause with a narrower class than Exception
RouteCatches_OnlyValueError(e) == e = "ValueError"

\* except Exception as e
RouteCatches(e) == TRUE

\* an exception raised inside the route's try block: the except clause turns
\* it into a 500 response, anything it does not catch leaves the route
Raise(e) ==
    /\ pc' = "done"
    /\ IF RouteCatches(e)
       THEN /\ response' = [code |-> 500, success |-> FALSE, hasEntropy |-> FALSE,
                            entropy |-> <<>>, error |-> e]
            /\ escaped' = escaped
       ELSE /\ response' = response
            /\ escaped' = TRUE

Init ==
    /\ pc = "idle"
    /\ route = "none"
    /\ body = NoBody
    /\ n_bits = 0
    /\ theta = 0
    /\ jobs = <<>>
    /\ submitLog = <<>>
    /\ collectLog = <<>>
    /\ all_bits = <<>>
    /\ expectation_values = <<>>
    /\ result = NoResult
    /\ response = NoResponse
    /\ escaped = FALSE
    /\ ExtIdle
    /\ JobsIdle
    /\ BackendIdle
    /\ LicenseIdle
    /\ CallersIdle
    /\ FnIdle

\* /api/v1/generate: the route parses and validates the parameters
Request(rb, rt) ==
    /\ pc = "idle"
    /\ route' = "generate"
    /\ body' = [bits |-> rb, theta |-> rt]
    /\ IF IntOf(rb).exc = "OverflowError"
       THEN /\ Raise("OverflowError")
            /\ UNCHANGED <<n_bits, theta>>
       ELSE LET b == ParseBits(rb)
                t == ParseTheta(rt)
            IN  /\ n_bits' = b
                /\ theta' = t
                /\ escaped' = escaped
                /\ IF b < 1 \/ b > ApiMaxBits
                   THEN /\ response' = [code |-> 400, success |-> FALSE,
                                        hasEntropy |-> FALSE, entropy |-> <<>>,
                                        error |-> "bits must be between 1 and 2048"]
                        /\ pc' = "done"
                   ELSE IF t < 0 \/ t > 10 * ApiMaxTheta
                   THEN /\ response' = [code |-> 400, success |-> FALSE,
                                        hasEntropy |-> FALSE, entropy |-> <<>>,
                                        error |-> "theta must be between 0 and 90"]
                        /\ pc' = "done"
                   ELSE /\ response' = response
                        /\ pc' = "construct"
    /\ UNCHANGED <<jobs, submitLog, collectLog, all_bits, expectation_values,
                   result, extVars, jobVars, bkVars, licVars, protoVars, fnVars>>

\* /api/v1/key: no parameters, generate_crypto_key asks for 256 bits
RequestKey ==
    /\ pc = "idle"
    /\ route' = "key"
    /\ body' = NoBody
    /\ n_bits' = KeyBits
    /\ theta' = 10 * DefaultTheta
    /\ pc' = "construct"
    /\ UNCHANGED <<jobs, submitLog, collectLog, all_bits, expectation_values,
                   result, response, escaped, extVars, jobVars, bkVars, licVars, protoVars, fnVars>>

\* rng = QuantumFoamRNG_Free(): the provider answers
ConstructOk ==
    /\ pc = "construct"
    /\ pc' = "submit"
    /\ UNCHANGED <<route, body, n_bits, theta, jobs, submitLog, collectLog, all_bits,
                   expectation_values, result, response, escaped, extVars, jobVars, bkVars, licVars, protoVars, fnVars>>

\* rng = QuantumFoamRNG_Free(): the provider raises
ConstructRaises ==
    /\ pc = "construct"
    /\ Raise("ProviderError")
    /\ UNCHANGED <<route, body, n_bits, theta, jobs, submitLog, collectLog, all_bits,
                   expectation_values, result, extVars, jobVars, bkVars, licVars, protoVars, fnVars>>

\* the submit loop "for basis in self.bases" runs to its end before the
\* collect loop starts
AfterSubmit_Early(basis) == "collect"

AfterSubmit(basis) == IF basis = NumBases THEN "collect" ELSE "submit"

\* one pass of "for basis in self.bases": device.run returns a job
SubmitOk ==
    /\ pc = "submit"
    /\ LET basis == Len(submitLog) + 1 IN
         /\ jobs' = Append(jobs, basis)
         /\ submitLog' = Append(submitLog, "ok")
         /\ pc' = AfterSubmit(basis)
    /\ UNCHANGED <<route, body, n_bits, theta, collectLog, all_bits, expectation_values,
                   result, response, escaped, extVars, jobVars, bkVars, licVars, protoVars, fnVars>>

\* one pass of "for basis in self.bases": device.run raises
SubmitRaises ==
    /\ pc = "submit"
    /\ submitLog' = Append(submitLog, "raised")
    /\ Raise("AdapterSubmissionError")
    /\ UNCHANGED <<route, body, n_bits, theta, jobs, collectLog, all_bits, expectation_values,
                   result, extVars, jobVars, bkVars, licVars, protoVars, fnVars>>

\* one pass of "for i, (basis, job) in enumerate(jobs)": job.result() raises
CollectRaises ==
    /\ pc = "collect"
    /\ collectLog' = Append(collectLog, [raised |-> TRUE, counts |-> <<>>])
    /\ Raise("AdapterCollectionError")
    /\ UNCHANGED <<route, body, n_bits, theta, jobs, submitLog, all_bits, expectation_values,
                   result, extVars, jobVars, bkVars, licVars, protoVars, fnVars>>

\* one pass of "for i, (basis, job) in enumerate(jobs)": job.result() returns
\* the histogram counts; its bits and expectation value are extracted
Collect(counts) ==
    /\ pc = "collect"
    /\ collectLog' = Append(collectLog, [raised |-> FALSE, counts |-> counts])
    /\ all_bits' = all_bits \o Extract(counts).bits
    /\ IF Extract(counts).exp.ok
       THEN /\ expectation_values' =
                   Append(expectation_values,
                          <<Extract(counts).exp.num, Extract(counts).exp.den>>)
            /\ pc' = IF Len(collectLog) + 1 = Len(jobs) THEN "assemble" ELSE "collect"
            /\ UNCHANGED <<response, escaped>>
       ELSE /\ expectation_values' = expectation_values
            /\ Raise("ZeroDivisionError")
    /\ UNCHANGED <<route, body, n_bits, theta, jobs, submitLog, result, extVars, jobVars, bkVars, licVars, protoVars, fnVars>>

\* truncation, bit string and hex string; the route answers with the result
Assemble ==
    /\ pc = "assemble"
    /\ LET entropy_bits == Take(all_bits, n_bits) IN
         IF IsBinary(entropy_bits)
         THEN /\ result' = [returned |-> TRUE, bits |-> entropy_bits,
                            hex |-> HexString(entropy_bits, n_bits)]
              /\ response' = [code |-> 200, success |-> TRUE, hasEntropy |-> TRUE,
                              entropy |-> HexString(entropy_bits, n_bits),
                              error |-> "none"]
              /\ pc' = "done"
              /\ escaped' = escaped
         ELSE /\ result' = result
              /\ Raise("ValueError")
    /\ UNCHANGED <<route, body, n_bits, theta, jobs, submitLog, collectLog, all_bits,
                   expectation_values, extVars, jobVars, bkVars, licVars, protoVars, fnVars>>

Next ==
    \/ \E b \in ReqBits, t \in ReqThetas : Request(b, t)
    \/ RequestKey
    \/ ConstructOk
    \/ ConstructRaises
    \/ SubmitOk
    \/ SubmitRaises
    \/ CollectRaises
    \/ \E counts \in BackendHistograms : Collect(counts)
    \/ Assemble

Spec == Init /\ [][Next]_vars

-----------------------------------------------------------------------------
(* The run with the backend's side of its jobs: a job submitted by          *)
(* device.run ends on the backend at a time of the backend's choosing, with *)
(* a histogram or with an error, and job.result() (free.py 128) returns or  *)
(* raises only once the job has ended.  Spec draws the outcome of           *)
(* job.result() when it is called; SpecBackend lets the jobs end in any     *)
(* order, or never.                                                          *)

Done(counts) == [state |-> "done", counts |-> counts]

Failed == [state |-> "failed", counts |-> <<>>]

\* the requests and histograms of SpecBackend
SomeBits == {2, MaxBits}

SomeHistograms == {H_00_11, H_01_10, H_00}

\* the backend ends the job of basis i with a histogram
BackendFinishes(i, counts) ==
    /\ \E k \in DOMAIN jobs : jobs[k] = i
    /\ backend[i].state = "queued"
    /\ backend' = [backend EXCEPT ![i] = Done(counts)]
    /\ order' = Append(order, i)
    /\ UNCHANGED <<runVars, extVars, jobVars, licVars, protoVars, fnVars>>

\* the backend ends the job of basis i with an error
BackendFails(i) ==
    /\ \E k \in DOMAIN jobs : jobs[k] = i
    /\ backend[i].state = "queued"
    /\ backend' = [backend EXCEPT ![i] = Failed]
    /\ order' = Append(order, i)
    /\ UNCHANGED <<runVars, extVars, jobVars, licVars, protoVars, fnVars>>

\* "for i, (basis, job) in enumerate(jobs)": the job whose result is asked
\* for next, in the order of submission
NextJob_AsCompleted ==
    IF Len(order) > Len(collectLog)
    THEN order[Len(collectLog) + 1]
    ELSE jobs[Len(collectLog) + 1]

NextJob == jobs[Len(collectLog) + 1]

\* job.result() returns: the job has ended with a histogram
CollectReady ==
    /\ pc = "collect"
    /\ backend[NextJob].state = "done"
    /\ Collect(backend[NextJob].counts)

\* job.result() raises: the job has ended with an error
CollectFailed ==
    /\ pc = "collect"
    /\ backend[NextJob].state = "failed"
    /\ CollectRaises

\* the steps of the run itself
RunStep ==
    \/ \E b \in SomeBits : Request(IntValue(b), Absent)
    \/ ConstructOk
    \/ SubmitOk
    \/ CollectReady
    \/ CollectFailed
    \/ Assemble

NextBackend ==
    \/ RunStep
    \/ \E i \in Bases, counts \in SomeHistograms : BackendFinishes(i, counts)
    \/ \E i \in Bases : BackendFails(i)

SpecBackend == Init /\ [][NextBackend]_vars

-----------------------------------------------------------------------------
(* The job lifecycle manager: createJob, runJob, getJob.  A job record is   *)
(* [status, hasKey, hasError]: hasKey says a GenerationResult (with its     *)
(* keyHex) is attached, hasError that an error message is.                  *)

JobIds == 1..MaxJobs

NotFound == [found |-> FALSE, status |-> "none", hasKey |-> FALSE, hasError |-> FALSE]

InitJobs ==
    /\ RunIdle
    /\ ExtIdle
    /\ BackendIdle
    /\ LicenseIdle
    /\ CallersIdle
    /\ FnIdle
    /\ table = <<>>
    /\ nextId = 1
    /\ lock = 0
    /\ snapshot = NotFound

\* createJob: allocates an identifier and inserts a pending record, under the lock
CreateJob ==
    /\ lock = 0
    /\ nextId \in JobIds
    /\ table' = Append(table, [status |-> "pending", hasKey |-> FALSE, hasError |-> FALSE])
    /\ nextId' = nextId + 1
    /\ UNCHANGED <<lock, snapshot, runVars, extVars, bkVars, licVars, protoVars, fnVars>>

\* a second start of a job's background task, whatever its status
CanStart_AnyStatus(j) == TRUE

\* exactly one background task per job: it starts the job while it is pending
CanStart(j) == table[j].status = "pending"

\* runJob: the background task starts, pending -> processing
RunJobStart(j) ==
    /\ lock = 0
    /\ j \in DOMAIN table
    /\ CanStart(j)
    /\ table' = [table EXCEPT ![j].status = "processing"]
    /\ UNCHANGED <<nextId, lock, snapshot, runVars, extVars, bkVars, licVars, protoVars, fnVars>>

\* runJob, pipeline success: takes the lock and attaches the GenerationResult
AttachResult(j) ==
    /\ lock = 0
    /\ j \in DOMAIN table
    /\ table[j].status = "processing"
    /\ lock' = j
    /\ table' = [table EXCEPT ![j].hasKey = TRUE]
    /\ UNCHANGED <<nextId, snapshot, runVars, extVars, bkVars, licVars, protoVars, fnVars>>

\* runJob, an exception of the engine or pipeline: takes the lock and attaches the error
AttachError(j) ==
    /\ lock = 0
    /\ j \in DOMAIN table
    /\ table[j].status = "processing"
    /\ lock' = j
    /\ table' = [table EXCEPT ![j].hasError = TRUE]
    /\ UNCHANGED <<nextId, snapshot, runVars, extVars, bkVars, licVars, protoVars, fnVars>>

\* runJob: sets the final status and releases the lock
Finish(j) ==
    /\ lock = j
    /\ j \in DOMAIN table
    /\ table' = [table EXCEPT ![j].status =
                     IF table[j].hasKey THEN "completed" ELSE "failed"]
    /\ lock' = 0
    /\ UNCHANGED <<nextId, snapshot, runVars, extVars, bkVars, licVars, protoVars, fnVars>>

\* a read that does not take the lock
ReadAllowed_NoLock == TRUE

\* reads and writes of a job record are mutually exclusive
ReadAllowed == lock = 0

\* getJob: a copy of the record, or NotFound
GetJob(j) ==
    /\ ReadAllowed
    /\ snapshot' = IF j \in DOMAIN table
                   THEN [found |-> TRUE, status |-> table[j].status,
                         hasKey |-> table[j].hasKey, hasError |-> table[j].hasError]
                   ELSE NotFound
    /\ UNCHANGED <<table, nextId, lock, runVars, extVars, bkVars, licVars, protoVars, fnVars>>

NextJobs ==
    \/ CreateJob
    \/ \E j \in JobIds : RunJobStart(j)
    \/ \E j \in JobIds : AttachResult(j)
    \/ \E j \in JobIds : AttachError(j)
    \/ \E j \in JobIds : Finish(j)
    \/ \E j \in JobIds : GetJob(j)

SpecJobs == InitJobs /\ [][NextJobs]_vars

-----------------------------------------------------------------------------
(* The license manager of license_server.py.  A string is a sequence of     *)
(* tokens, "-" being the dash: a key is QFRNG-{TIER}-{RANDOM}-{CHECKSUM}.   *)
(* An Optional value is <<>> for None and <<v>> for v.                      *)

Customers == {"alice", "bob"}

SomeTiers == {"PRO"}

\* values of _generate_random_alphanum(8)
Randoms == {"R1", "R2"}

\* days a license may be created for: None and 1
Durations == {<<>>, <<1>>}

\* _generate_checksum: the first four hex digits of HMAC-SHA256 over
\* "base_key:customer_id", a function of the two; being 16 bits it can
\* coincide for two customers, as it does here for the keys of R1
generate_checksum(base_key, customer_id) ==
    IF \E i \in DOMAIN base_key : base_key[i] = "R1"
    THEN "C0"
    ELSE IF customer_id = "alice" THEN "C0" ELSE "C1"

\* generate_key with random_part the value drawn by secrets.choice
generate_key_NoLastDash(customer_id, tier, random_part) ==
    LET base_key == <<"QFRNG", "-", tier, "-", random_part>>
    IN  base_key \o <<generate_checksum(base_key, customer_id)>>

generate_key(customer_id, tier, random_part) ==
    LET base_key == <<"QFRNG", "-", tier, "-", random_part>>
    IN  base_key \o <<"-", generate_checksum(base_key, customer_id)>>

\* key.split('-')
RECURSIVE Split(_)
Split(str) ==
    IF \A i \in DOMAIN str : str[i] # "-"
    THEN <<str>>
    ELSE LET i == CHOOSE j \in DOMAIN str :
                      str[j] = "-" /\ \A k \in 1..(j - 1) : str[k] # "-"
         IN  <<SubSeq(str, 1, i - 1)>> \o Split(SubSeq(str, i + 1, Len(str)))

validate_key_format(key, customer_id) ==
    LET parts == Split(key) IN
      IF Len(parts) # 4
      THEN FALSE
      ELSE IF parts[1] # <<"QFRNG">>
      THEN FALSE
      ELSE LET base_key == parts[1] \o <<"-">> \o parts[2] \o <<"-">> \o parts[3]
           IN  parts[4] = <<generate_checksum(base_key, customer_id)>>

Return(ok, message) == [ok |-> ok, message |-> message]

\* self.tier_limits[tier]
tier_limits(tier) ==
    CASE tier = "FREE" -> FreeLimit
      [] tier = "PRO" -> ProLimit
      [] tier = "ENTERPRISE" -> EnterpriseLimit

validate_license_CustomerFirst(key, customer_id) ==
    IF ~validate_key_format(key, customer_id)
    THEN Return(FALSE, "Invalid key format or checksum")
    ELSE IF key \notin DOMAIN licenses
    THEN Return(FALSE, "License key not found")
    ELSE IF licenses[key].customer_id # customer_id
    THEN Return(FALSE, "Customer ID mismatch")
    ELSE IF ~licenses[key].is_active
    THEN Return(FALSE, "License has been revoked")
    ELSE IF licenses[key].expires_at # <<>> /\ now > licenses[key].expires_at[1]
    THEN Return(FALSE, "License has expired")
    ELSE Return(TRUE, "None")

validate_license(key, customer_id) ==
    IF ~validate_key_format(key, customer_id)
    THEN Return(FALSE, "Invalid key format or checksum")
    ELSE IF key \notin DOMAIN licenses
    THEN Return(FALSE, "License key not found")
    ELSE IF ~licenses[key].is_active
    THEN Return(FALSE, "License has been revoked")
    ELSE IF licenses[key].expires_at # <<>> /\ now > licenses[key].expires_at[1]
    THEN Return(FALSE, "License has expired")
    ELSE IF licenses[key].customer_id # customer_id
    THEN Return(FALSE, "Customer ID mismatch")
    ELSE Return(TRUE, "None")

\* the keys generate_key can return
GeneratedKeys ==
    {generate_key(c, t, r) : c \in Customers, t \in SomeTiers, r \in Randoms}

\* the keys a caller passes: generated ones, a string with three parts and
\* one with another prefix
KeyInputs ==
    GeneratedKeys \cup
      {<<"QFRNG", "-", "PRO", "-", "R1">>,
       <<"XFRNG", "-", "PRO", "-", "R1", "-", "C0">>}

InitLicense ==
    /\ RunIdle
    /\ ExtIdle
    /\ JobsIdle
    /\ BackendIdle
    /\ LicenseIdle
    /\ CallersIdle
    /\ FnIdle

\* create_license: a new License under the generated key
CreateLicense(customer_id, tier, random_part, duration_days) ==
    LET key == generate_key(customer_id, tier, random_part)
        expires_at == IF duration_days # <<>> /\ duration_days[1] # 0
                      THEN <<now + duration_days[1]>>
                      ELSE <<>>
    IN  /\ key \in DOMAIN licenses \/ Cardinality(DOMAIN licenses) < MaxLicenses
        /\ licenses' =
             [k \in DOMAIN licenses \cup {key} |->
                IF k = key
                THEN [key |-> key, tier |-> tier, customer_id |-> customer_id,
                      expires_at |-> expires_at,
                      max_requests_per_month |-> tier_limits(tier),
                      requests_this_month |-> 0, last_reset |-> now,
                      is_active |-> TRUE]
                ELSE licenses[k]]
        /\ call' = [op |-> "create_license", key |-> key, customer_id |-> customer_id]
        /\ UNCHANGED <<now, runVars, extVars, jobVars, bkVars, protoVars, fnVars>>

\* revoke_license
RevokeLicense(key) ==
    /\ IF key \in DOMAIN licenses
       THEN /\ licenses' = [licenses EXCEPT ![key].is_active = FALSE]
            /\ call' = [op |-> "revoke_license", key |-> key, ret |-> TRUE]
       ELSE /\ licenses' = licenses
            /\ call' = [op |-> "revoke_license", key |-> key, ret |-> FALSE]
    /\ UNCHANGED <<now, runVars, extVars, jobVars, bkVars, protoVars, fnVars>>

\* validate_license, called at the time now
ValidateLicense(key, customer_id) ==
    /\ call' = [op |-> "validate_license", key |-> key, customer_id |-> customer_id,
                at |-> now, ret |-> validate_license(key, customer_id)]
    /\ UNCHANGED <<licenses, now, runVars, extVars, jobVars, bkVars, protoVars, fnVars>>

\* a day passes
Tick ==
    /\ now < MaxDay
    /\ now' = now + 1
    /\ UNCHANGED <<licenses, call, runVars, extVars, jobVars, bkVars, protoVars, fnVars>>

NextLicense ==
    \/ \E c \in Customers, t \in SomeTiers, r \in Randoms, d \in Durations :
          CreateLicense(c, t, r, d)
    \/ \E k \in KeyInputs : RevokeLicense(k)
    \/ \E k \in KeyInputs, c \in Customers : ValidateLicense(k, c)
    \/ Tick

SpecLicense == InitLicense /\ [][NextLicense]_vars

-----------------------------------------------------------------------------
(* Usage tracking of the license manager: check_rate_limit, record_usage    *)
(* and get_license_info, next to create, revoke and validate, on two keys   *)
(* and a clock that reaches the 30 days of the monthly reset.               *)

\* "if (now - license.last_reset).days >= 30": the monthly counter is reset
ResetIfDue_After30(license) ==
    IF now - license.last_reset > ResetDays
    THEN [license EXCEPT !.requests_this_month = 0, !.last_reset = now]
    ELSE license

ResetIfDue(license) ==
    IF now - license.last_reset >= ResetDays
    THEN [license EXCEPT !.requests_this_month = 0, !.last_reset = now]
    ELSE license

\* the usage_info dict of check_rate_limit
usage_info(license) ==
    [tier |-> license.tier,
     requests_used |-> license.requests_this_month,
     requests_limit |-> license.max_requests_per_month,
     quota_remaining |-> license.max_requests_per_month - license.requests_this_month,
     reset_date |-> license.last_reset + ResetDays]

\* check_rate_limit, but for what its caller does with the answer
CheckRateLimitCall(key) ==
    /\ IF key \notin DOMAIN licenses
       THEN /\ licenses' = licenses
            /\ call' = [op |-> "check_rate_limit", key |-> key,
                        ret |-> [has_quota |-> FALSE,
                                 info |-> [error |-> "Invalid license"]]]
       ELSE LET license == ResetIfDue(licenses[key]) IN
              /\ licenses' = [licenses EXCEPT ![key] = license]
              /\ call' = [op |-> "check_rate_limit", key |-> key,
                          ret |-> [has_quota |-> license.requests_this_month
                                                   < license.max_requests_per_month,
                                   info |-> usage_info(license)]]
    /\ UNCHANGED <<now, runVars, extVars, jobVars, bkVars, fnVars>>

\* check_rate_limit
CheckRateLimit(key) ==
    /\ CheckRateLimitCall(key)
    /\ UNCHANGED protoVars

\* "license.requests_this_month += num_requests"
record_usage_WithinQuota(license, num_requests) ==
    IF license.requests_this_month + num_requests <= license.max_requests_per_month
    THEN [license EXCEPT !.requests_this_month = @ + num_requests]
    ELSE license

record_usage(license, num_requests) ==
    [license EXCEPT !.requests_this_month = @ + num_requests]

\* record_usage, but for what its caller does next
RecordUsageCall(key, num_requests) ==
    /\ IF key \notin DOMAIN licenses
       THEN /\ licenses' = licenses
            /\ call' = [op |-> "record_usage", key |-> key,
                        num_requests |-> num_requests, ret |-> FALSE]
       ELSE /\ licenses[key].requests_this_month + num_requests
                 <= MaxFills * licenses[key].max_requests_per_month
            /\ licenses' = [licenses EXCEPT ![key] = record_usage(@, num_requests)]
            /\ call' = [op |-> "record_usage", key |-> key,
                        num_requests |-> num_requests, ret |-> TRUE]
    /\ UNCHANGED <<now, runVars, extVars, jobVars, bkVars, fnVars>>

\* record_usage
RecordUsage(key, num_requests) ==
    /\ RecordUsageCall(key, num_requests)
    /\ UNCHANGED protoVars

\* get_license_info: None, or the dict of the stored license
GetLicenseInfo(key) ==
    /\ call' = [op |-> "get_license_info", key |-> key,
                ret |-> IF key \notin DOMAIN licenses
                        THEN <<>>
                        ELSE <<[key |-> licenses[key].key,
                                tier |-> licenses[key].tier,
                                expires_at |-> licenses[key].expires_at,
                                is_active |-> licenses[key].is_active,
                                usage |-> [requests_this_month |->
                                               licenses[key].requests_this_month,
                                           max_requests_per_month |->
                                               licenses[key].max_requests_per_month,
                                           last_reset |-> licenses[key].last_reset]]>>]
    /\ UNCHANGED <<licenses, now, runVars, extVars, jobVars, bkVars, protoVars, fnVars>>

\* days pass
Wait(days) ==
    /\ now + days <= MaxUsageDay
    /\ now' = now + days
    /\ UNCHANGED <<licenses, call, runVars, extVars, jobVars, bkVars, protoVars, fnVars>>

\* the keys, amounts and waits of SpecUsage
UsageKeys == {generate_key(c, "PRO", "R2") : c \in Customers}

UsageAmounts == {ProLimit - 1, ProLimit}

UsageWaits == {ResetDays - 1, ResetDays}

NextUsage ==
    \/ \E c \in Customers : CreateLicense(c, "PRO", "R2", <<>>)
    \/ \E k \in UsageKeys : RevokeLicense(k)
    \/ \E k \in UsageKeys, c \in Customers : ValidateLicense(k, c)
    \/ \E k \in UsageKeys : CheckRateLimit(k)
    \/ \E k \in UsageKeys, n \in UsageAmounts : RecordUsage(k, n)
    \/ \E k \in UsageKeys : GetLicenseInfo(k)
    \/ \E d \in UsageWaits : Wait(d)

SpecUsage == InitLicense /\ [][NextUsage]_vars

-----------------------------------------------------------------------------
(* Callers that follow the protocol of the example (license_server.py       *)
(* 304-320): check_rate_limit(key), then record_usage(key, 1) only if       *)
(* has_quota was True.  The manager has no lock, so the calls of several    *)
(* callers interleave.                                                      *)

\* the key the callers share
ProtocolKey == generate_key("alice", "PRO", "R2")

\* a stored license that has StartBelow requests left in its month
InitProtocol ==
    /\ RunIdle
    /\ ExtIdle
    /\ JobsIdle
    /\ BackendIdle
    /\ CallersIdle
    /\ FnIdle
    /\ now = 0
    /\ call = NoCall
    /\ licenses = [k \in {ProtocolKey} |->
                     [key |-> ProtocolKey, tier |-> "PRO", customer_id |-> "alice",
                      expires_at |-> <<>>,
                      max_requests_per_month |-> tier_limits("PRO"),
                      requests_this_month |-> tier_limits("PRO") - StartBelow,
                      last_reset |-> 0,
                      is_active |-> TRUE]]

\* has_quota, usage = manager.check_rate_limit(key)
CallerChecks(c) ==
    /\ callers[c] = "idle"
    /\ CheckRateLimitCall(ProtocolKey)
    /\ callers' = [callers EXCEPT
                     ![c] = IF call'.ret.has_quota THEN "may_record" ELSE "idle"]

\* manager.record_usage(key, 1)
CallerRecords(c) ==
    /\ callers[c] = "may_record"
    /\ RecordUsageCall(ProtocolKey, 1)
    /\ callers' = [callers EXCEPT ![c] = "idle"]

NextProtocol ==
    \/ \E c \in Callers : CallerChecks(c)
    \/ \E c \in Callers : CallerRecords(c)

SpecProtocol == InitProtocol /\ [][NextProtocol]_vars

-----------------------------------------------------------------------------
(* Properties *)

ForwardSteps ==
    {<<"pending", "processing">>, <<"processing", "completed">>,
     <<"processing", "failed">>}

\* C1: the status of every job only moves forward along
\* pending -> processing -> {completed, failed}: never backward, never from
\* pending straight to completed or failed, never again once completed or failed.
C1_StatusOnlyMovesForward ==
    [][\A j \in DOMAIN table :
          \/ table'[j].status = table[j].status
          \/ <<table[j].status, table'[j].status>> \in ForwardSteps]_vars

C1_Witness ==
    /\ \E j \in DOMAIN table : table[j].status = "completed"
    /\ \E j \in DOMAIN table : table[j].status = "failed"

\* C2: once the body of a generation run has returned, the run is recorded as
\* exactly one of completed (result attached) or failed (error message
\* attached), whatever exception was raised; no exception leaves the
\* catch-and-record boundary.
C2_RunRecordedOnReturn ==
    /\ ~escaped
    /\ pc = "done" =>
         \/ response.success /\ response.hasEntropy /\ response.error = "none"
         \/ ~response.success /\ ~response.hasEntropy /\ response.error # "none"

C2_Witness ==
    /\ pc = "done"
    /\ Len(collectLog) = NumBases
    /\ response.code = 500
    /\ response.error = "ValueError"

\* C3: in every state getJob can observe, also while runJob is writing, the
\* job's keyHex is present if and only if its status is completed.
C3_KeyIffCompleted ==
    snapshot.found => (snapshot.hasKey <=> snapshot.status = "completed")

C3_Witness ==
    /\ snapshot.found
    /\ snapshot.status = "completed"
    /\ snapshot.hasKey
    /\ lock # 0

\* C4: a submission failure of one basis is recorded for that basis only: every
\* other basis is still submitted, the phase ends only when every basis has
\* succeeded or failed, and the run does not fail because of it.
C4_SubmitFailureIsolated ==
    (pc = "done" /\ \E i \in DOMAIN submitLog : submitLog[i] = "raised")
      => /\ Len(submitLog) = NumBases
         /\ response.error # "AdapterSubmissionError"

\* C5: a collection failure of one basis leaves the other bases' outcomes
\* unaffected: every submitted basis is still collected and the run does not
\* fail because of it, nor does an exception reach the caller.
C5_CollectFailureIsolated ==
    (pc = "done" /\ \E i \in DOMAIN collectLog : collectLog[i].raised)
      => /\ Len(collectLog) = Len(jobs)
         /\ response.error # "AdapterCollectionError"
         /\ ~escaped

\* C6: when the bits collected are fewer than the requested length the run fails
\* with an explicit insufficient-entropy error; it never returns successfully
\* with a bit string shorter than the requested number of bits.
C6_ShortPoolFails ==
    (/\ pc = "done"
     /\ Len(expectation_values) = NumBases
     /\ Len(all_bits) < n_bits
     /\ \A i \in DOMAIN all_bits : all_bits[i] \in {0, 1})
      => /\ ~result.returned
         /\ response.error = "insufficient entropy collected"

\* the labels the extractor accepts for the four outcomes: 0..3, '0'..'3',
\* '00', '01', '10', '11'
Accepted(label) ==
    \/ label.kind = "int" /\ label.n \in 0..3
    \/ label.kind = "str" /\ Len(label.s) = 1
    \/ label.kind = "str" /\ Len(label.s) = 2
         /\ label.s[1] \in {"0", "1"} /\ label.s[2] \in {"0", "1"}

\* the outcome 0..3 a label stands for: 0 <-> "00", 1 <-> "01", 2 <-> "10", 3 <-> "11"
OutcomeOf(label) ==
    IF label.kind = "int" THEN label.n
    ELSE IF Len(label.s) = 1 THEN CharVal(label.s[1])
    ELSE 2 * CharVal(label.s[1]) + CharVal(label.s[2])

PairOf(k) == <<k \div 2, k % 2>>

RECURSIVE PairsOf(_)
PairsOf(h) ==
    IF h = <<>> THEN <<>>
    ELSE Repeat(PairOf(OutcomeOf(Head(h).label)), Head(h).count) \o PairsOf(Tail(h))

\* occurrences of outcome k in h, over all of its accepted encodings
RECURSIVE Occurrences(_, _)
Occurrences(h, k) ==
    IF h = <<>> THEN 0
    ELSE (IF Accepted(Head(h).label) /\ OutcomeOf(Head(h).label) = k
          THEN Head(h).count ELSE 0) + Occurrences(Tail(h), k)

\* all occurrences in h
RECURSIVE AllOccurrences(_)
AllOccurrences(h) ==
    IF h = <<>> THEN 0 ELSE Head(h).count + AllOccurrences(Tail(h))

\* C7: each outcome with count N contributes exactly N bit-pairs (its two bits,
\* in order, N times), so a histogram with total T contributes 2*T bits, for
\* labels in integer form and in every string form the extractor accepts.
C7_CountGivesPairs ==
    (ext.done /\ \A i \in DOMAIN hist : Accepted(hist[i].label))
      => /\ ext.bits = PairsOf(hist)
         /\ Len(ext.bits) = 2 * AllOccurrences(hist)

\* C8: for every histogram with total T > 0 the expectation value is
\* (n00 + n11 - n01 - n10) / T, each nXY summed over all accepted encodings of
\* the outcome and T the sum of all counts.
C8_ExpectationFormula ==
    (ext.done /\ AllOccurrences(hist) > 0)
      => /\ ext.exp.ok
         /\ ext.exp.num = Occurrences(hist, 0) + Occurrences(hist, 3)
                            - Occurrences(hist, 1) - Occurrences(hist, 2)
         /\ ext.exp.den = AllOccurrences(hist)

C8_Witness ==
    /\ ext.done
    /\ ext.exp.ok
    /\ ext.exp.num < 0
    /\ \E i \in DOMAIN hist : hist[i].label.kind = "int" /\ hist[i].count > 0
    /\ \E i \in DOMAIN hist :
          hist[i].label.kind = "str" /\ Len(hist[i].label.s) = 1 /\ hist[i].count > 0

\* C9: for every histogram with non-negative counts and total T > 0 the
\* expectation value lies in [-1, 1], also when the histogram holds labels
\* that none of the four counters recognises.
C9_ExpectationInRange ==
    (ext.done /\ AllOccurrences(hist) > 0)
      => /\ ext.exp.ok
         /\ ext.exp.den > 0
         /\ ext.exp.num <= ext.exp.den
         /\ -ext.exp.den <= ext.exp.num

C9_Witness ==
    /\ ext.done
    /\ ext.exp.ok
    /\ ext.exp.num > 0
    /\ ext.exp.num < ext.exp.den
    /\ \E i \in DOMAIN hist : ~Accepted(hist[i].label) /\ hist[i].count > 0

\* C10: a basis whose histogram has total 0 is treated as failed with no data
\* and left out of the pool; no division by zero is attempted and the run is
\* not aborted by it.
C10_EmptyHistogramExcluded ==
    (pc = "done" /\ \E i \in DOMAIN collectLog :
                       ~collectLog[i].raised /\ AllOccurrences(collectLog[i].counts) = 0)
      => /\ response.error # "ZeroDivisionError"
         /\ Len(collectLog) = Len(jobs)

\* C11: the final bit sequence a successful run returns has exactly outputBits
\* elements, each 0 or 1, whether fewer or at least outputBits bits were
\* available before the final stage.
C11_ExactlyOutputBits ==
    result.returned
      => /\ Len(result.bits) = n_bits
         /\ \A i \in DOMAIN result.bits : result.bits[i] \in {0, 1}

\* C12: for every successful run and every accepted outputBits the hex key has
\* exactly outputBits/4 hex characters (64 for generate_crypto_key), for an
\* outputBits that is no multiple of 4 its whole nibbles.
C12_HexLength ==
    result.returned
      => /\ Len(result.hex) = n_bits \div 4
         /\ route = "key" => Len(result.hex) = 64

\* the bits grouped from the left into 4-bit nibbles, most significant bit
\* first, a trailing partial nibble dropped
NibblesFromLeft(bits) ==
    [k \in 1..(Len(bits) \div 4) |->
        8 * bits[4 * k - 3] + 4 * bits[4 * k - 2] + 2 * bits[4 * k - 1] + bits[4 * k]]

\* C13: the hex key is the final bit sequence grouped from the left into 4-bit
\* nibbles, most significant bit first, leading zero nibbles kept; a trailing
\* partial nibble is dropped, the remaining bits are not right-aligned.
C13_HexIsLeftNibbles ==
    result.returned => result.hex = NibblesFromLeft(result.bits)

\* C14: no basis's result is collected before the submission of every basis
\* has settled, and no pooled bit is turned into output before the collection
\* of every basis has settled.
C14_PhasesAreBarriers ==
    /\ collectLog # <<>>
         => /\ Len(submitLog) = NumBases
            /\ Len(jobs) = NumBases
    /\ (result.returned \/ response.hasEntropy)
         => /\ Len(collectLog) = NumBases
            /\ \A k \in DOMAIN collectLog : ~collectLog[k].raised

C14_Witness ==
    /\ result.returned
    /\ Len(submitLog) = NumBases
    /\ Len(collectLog) = NumBases

\* the bias-removal stage as the specification states it: non-overlapping pairs, the
\* first bit of every unequal pair, nothing for an equal pair
RECURSIVE VonNeumann(_)
VonNeumann(b) ==
    IF Len(b) < 2
    THEN <<>>
    ELSE (IF b[1] # b[2] THEN <<b[1]>> ELSE <<>>) \o VonNeumann(SubSeq(b, 3, Len(b)))

\* the pools of 0/1 bits as long as pool
PoolsLike(pool) == [1..Len(pool) -> {0, 1}]

\* C15: the bits a run outputs have passed through the bias-removal stage,
\* which emits the first bit of every unequal pair and nothing for an equal
\* pair: the output is determined by what the stage yields from the pool, so
\* a pool with the same yield (two pools of 00/11 pairs only both yield
\* nothing) gives the same output.
C15_OutputPassedBiasRemoval ==
    (result.returned /\ \A i \in DOMAIN all_bits : all_bits[i] \in {0, 1})
      => \A p \in PoolsLike(all_bits) :
            VonNeumann(p) = VonNeumann(all_bits) => Take(p, n_bits) = result.bits

\* the pool and the expectation values of the first k bases, in basis order
RECURSIVE PoolOf(_)
PoolOf(k) == IF k = 0 THEN <<>> ELSE PoolOf(k - 1) \o Extract(backend[k].counts).bits

RECURSIVE ExpectationsOf(_)
ExpectationsOf(k) ==
    IF k = 0
    THEN <<>>
    ELSE Append(ExpectationsOf(k - 1),
                <<Extract(backend[k].counts).exp.num, Extract(backend[k].counts).exp.den>>)

Collected == Cardinality({k \in DOMAIN collectLog : ~collectLog[k].raised})

\* C16: the result of a run does not depend on the order in which the bases'
\* backend jobs complete: the pooled bits and the expectation values (of which
\* the quality metric is the standard deviation) are those of the per-basis
\* histograms taken in basis order, whatever the completion order was.
C16_CompletionOrderIrrelevant ==
    /\ all_bits = PoolOf(Collected)
    /\ expectation_values = ExpectationsOf(Collected)
    /\ result.returned => result.bits = Take(PoolOf(NumBases), n_bits)

C16_Witness ==
    /\ result.returned
    /\ order[1] = NumBases
    /\ backend[1].counts # backend[NumBases].counts

\* C18: collecting one basis takes a bounded number of poll attempts and ends
\* with a timeout error when the backend never becomes ready, so a run that is
\* collecting always has a step of its own to take and terminates even if a
\* backend job never finishes.
C18_CollectNeverWaitsForever ==
    pc = "collect" => ENABLED RunStep

\* C17: a generation request is answered without waiting for generation: at
\* the moment the caller receives the response, no backend result has had to
\* be collected.
C17_AnsweredBeforeCollection ==
    response.success => collectLog = <<>>

\* a "bits" or "theta" value that is a number outside lo..hi
OutOfRange(v, lo, hi) ==
    \/ v.kind = "inf"
    \/ /\ v.kind \in {"int", "float", "decstr"}
       /\ (v.tenths < 10 * lo \/ v.tenths > 10 * hi)

\* C19: a request to /api/v1/generate whose bits value is below 1 or above
\* 2048, or whose theta is below 0 or above 90, is answered with status 400
\* and success=false, and no circuit is submitted to the backend for it.
C19_OutOfRangeRejected ==
    (/\ route = "generate"
     /\ OutOfRange(body.bits, 1, ApiMaxBits) \/ OutOfRange(body.theta, 0, ApiMaxTheta))
      => /\ submitLog = <<>>
         /\ pc = "done"
         /\ response.code = 400
         /\ ~response.success

\* the message of the first failing check of validate_license(key, customer_id)
\* at the time at, in the order format/checksum, not found, revoked, expired,
\* customer mismatch
FirstFailure(key, customer_id, at) ==
    CASE ~validate_key_format(key, customer_id) -> "Invalid key format or checksum"
      [] OTHER ->
    CASE key \notin DOMAIN licenses -> "License key not found"
      [] OTHER ->
    CASE ~licenses[key].is_active -> "License has been revoked"
      [] OTHER ->
    CASE licenses[key].expires_at # <<>> /\ licenses[key].expires_at[1] < at ->
            "License has expired"
      [] OTHER ->
    CASE licenses[key].customer_id # customer_id -> "Customer ID mismatch"
      [] OTHER -> "None"

\* C20: validate_license(key, customer_id) returns (True, None) exactly when
\* the key's checksum matches customer_id, the key is stored, the license is
\* active, it has no expiry or the expiry is not in the past, and the stored
\* customer id equals customer_id; otherwise it returns (False, message) with
\* the message of the first failing check in the order format/checksum, not
\* found, revoked, expired, customer mismatch.
C20_ValidateLicenseResult ==
    call.op = "validate_license"
      => LET key == call.key
             customer_id == call.customer_id
             valid ==
                /\ validate_key_format(key, customer_id)
                /\ key \in DOMAIN licenses
                /\ licenses[key].is_active
                /\ \/ licenses[key].expires_at = <<>>
                   \/ licenses[key].expires_at[1] >= call.at
                /\ licenses[key].customer_id = customer_id
         IN  /\ call.ret.ok <=> valid
             /\ call.ret.ok => call.ret.message = "None"
             /\ ~call.ret.ok =>
                    call.ret.message = FirstFailure(key, customer_id, call.at)

C20_Witness ==
    /\ call.op = "validate_license"
    /\ call.ret = Return(FALSE, "Customer ID mismatch")
    /\ licenses[call.key].expires_at # <<>>

\* C21: every key returned by generate_key has the four dash-separated parts
\* QFRNG-{TIER}-{RANDOM}-{CHECKSUM} and is accepted by validate_key_format
\* with the same customer id; validate_license on a freshly created,
\* unexpired, unrevoked license with its own customer id returns (True, None).
C21_GeneratedKeyValidates ==
    call.op = "create_license"
      => LET key == call.key
             parts == Split(key)
         IN  /\ Len(parts) = 4
             /\ parts[1] = <<"QFRNG">>
             /\ \A i \in 1..4 : Len(parts[i]) = 1
             /\ parts[2][1] \in SomeTiers
             /\ parts[3][1] \in Randoms
             /\ validate_key_format(key, call.customer_id)
             /\ (licenses[key].expires_at = <<>> \/ now <= licenses[key].expires_at[1])
                  => validate_license(key, call.customer_id) = Return(TRUE, "None")

C21_Witness ==
    /\ call.op = "create_license"
    /\ call.customer_id = "bob"
    /\ licenses[call.key].expires_at # <<>>
    /\ now <= licenses[call.key].expires_at[1]
    /\ Cardinality(DOMAIN licenses) = MaxLicenses

\* C24: check_rate_limit(key) on a stored key first resets requests_this_month
\* to 0 and last_reset to now when at least 30 days have passed since
\* last_reset, and then returns has_quota = True exactly when
\* requests_this_month < max_requests_per_month, with quota_remaining =
\* max_requests_per_month - requests_this_month; when fewer than 30 days have
\* passed it changes no state.
C24_CheckRateLimit ==
    [][(/\ now' = now
        /\ call'.op = "check_rate_limit"
        /\ call'.key \in DOMAIN licenses)
       => LET key == call'.key
              before == licenses[key]
              after == licenses'[key]
          IN  /\ DOMAIN licenses' = DOMAIN licenses
              /\ now - before.last_reset >= ResetDays
                   => after = [before EXCEPT !.requests_this_month = 0,
                                             !.last_reset = now]
              /\ now - before.last_reset < ResetDays => licenses' = licenses
              /\ call'.ret.has_quota
                   <=> after.requests_this_month < after.max_requests_per_month
              /\ call'.ret.info.quota_remaining
                   = after.max_requests_per_month - after.requests_this_month]_vars

C24_Witness ==
    /\ call.op = "check_rate_limit"
    /\ call.key \in DOMAIN licenses
    /\ ~call.ret.has_quota
    /\ now - licenses[call.key].last_reset = ResetDays - 1

\* the license table but for the record of key
Others(table_, key) == [k \in DOMAIN table_ \ {key} |-> table_[k]]

\* C27: on a key that is not stored, check_rate_limit returns (False, error
\* info), record_usage returns False, revoke_license returns False and
\* get_license_info returns None, and none of them changes the license table;
\* on a stored key record_usage changes only requests_this_month (adding
\* num_requests, whatever the quota or active flag), revoke_license changes
\* only is_active, and validate_license and get_license_info change nothing.
C27_FrameOfLicenseCalls ==
    [][(now' = now /\ call'.op # "create_license")
       => LET key == call'.key
              op == call'.op
          IN  IF key \notin DOMAIN licenses
              THEN /\ licenses' = licenses
                   /\ op = "check_rate_limit"
                        => /\ ~call'.ret.has_quota
                           /\ call'.ret.info = [error |-> "Invalid license"]
                   /\ op = "record_usage" => call'.ret = FALSE
                   /\ op = "revoke_license" => call'.ret = FALSE
                   /\ op = "get_license_info" => call'.ret = <<>>
              ELSE /\ DOMAIN licenses' = DOMAIN licenses
                   /\ Others(licenses', key) = Others(licenses, key)
                   /\ op = "record_usage"
                        => /\ call'.ret = TRUE
                           /\ licenses'[key] =
                                [licenses[key] EXCEPT !.requests_this_month =
                                     @ + call'.num_requests]
                   /\ op = "revoke_license"
                        => /\ call'.ret = TRUE
                           /\ licenses'[key] = [licenses[key] EXCEPT !.is_active = FALSE]
                   /\ op \in {"validate_license", "get_license_info"}
                        => licenses' = licenses]_vars

C27_Witness ==
    /\ call.op = "record_usage"
    /\ call.ret = TRUE
    /\ ~licenses[call.key].is_active
    /\ licenses[call.key].requests_this_month > licenses[call.key].max_requests_per_month

\* C26: revocation is permanent: once revoke_license(key) has returned True
\* (the stored license is inactive), every later validate_license(key,
\* customer_id) returns False for every customer id, whatever calls of
\* create_license, record_usage, check_rate_limit and revoke_license follow.
C26_RevocationPermanent ==
    [][\A key \in DOMAIN licenses :
          ~licenses[key].is_active
            => \A customer_id \in Customers :
                  ~(validate_license(key, customer_id).ok)']_vars

\* C25: when every caller follows the protocol check_rate_limit(key) and
\* then, only if has_quota was True, record_usage(key, 1), requests_this_month
\* never exceeds max_requests_per_month, including when several callers
\* interleave their check and record steps on the same key.
C25_QuotaNeverExceeded ==
    \A key \in DOMAIN licenses :
        licenses[key].requests_this_month <= licenses[key].max_requests_per_month

(***************************************************************************)
(* generate_random_integer of the client library (SpecInteger)            *)
(***************************************************************************)

\* int.bit_length() of a non-negative integer
RECURSIVE bit_length(_)
bit_length(n) ==
    IF n = 0 THEN 0 ELSE 1 + bit_length(n \div 2)

\* the strings of num_bits characters '0'/'1' that /v1/generate answers with
BitStrings(num_bits) == [1..num_bits -> {0, 1}]

Returned(value) == [done |-> TRUE, raised |-> "", value |-> value]

Raised(exception) == [done |-> TRUE, raised |-> exception, value |-> 0]

\* the body of generate_random_integer once generate_random_bits has
\* returned bits: int(bits, 2) raises ValueError on the empty string
generate_random_integer(min_val, max_val, bits) ==
    IF ~IsBinary(bits) THEN Raised("ValueError")
    ELSE Returned(min_val + (BinValue(bits) % (max_val - min_val + 1)))

IntegerArgs ==
    { [fn |-> "generate_random_integer", min_val |-> lo, max_val |-> hi,
       bits |-> bits] :
        lo \in -MaxVal..MaxVal, hi \in -MaxVal..MaxVal,
        bits \in UNION { BitStrings(k) : k \in 0..bit_length(2 * MaxVal) } }

InitInteger ==
    /\ RunIdle
    /\ ExtIdle
    /\ JobsIdle
    /\ BackendIdle
    /\ LicenseIdle
    /\ CallersIdle
    /\ outcome = NoOutcome
    /\ args \in { a \in IntegerArgs :
                    /\ a.min_val <= a.max_val
                    /\ Len(a.bits) = bit_length(a.max_val - a.min_val) }

GenerateRandomInteger ==
    /\ args.fn = "generate_random_integer"
    /\ ~outcome.done
    /\ outcome' = generate_random_integer(args.min_val, args.max_val, args.bits)
    /\ UNCHANGED <<args, runVars, extVars, jobVars, bkVars, licVars, protoVars>>

NextInteger == GenerateRandomInteger

SpecInteger == InitInteger /\ [][NextInteger]_vars

\* C22: generate_random_integer(min_val, max_val) returns an integer r with
\* min_val <= r <= max_val whenever min_val <= max_val, min_val = max_val
\* included, whatever bits the server answers with
C22_IntegerInRange ==
    (args.fn = "generate_random_integer" /\ outcome.done) =>
        /\ outcome.raised = ""
        /\ args.min_val <= outcome.value
        /\ outcome.value <= args.max_val

(***************************************************************************)
(* Quantum certificates of the Pro edition (SpecCertificate)              *)
(***************************************************************************)

\* Python values a certificate field can hold; floats are in hundredths
PyFloat(hundredths) == [type |-> "float", n |-> hundredths, s |-> ""]

PyInt(n) == [type |-> "int", n |-> n, s |-> ""]

PyStr(s) == [type |-> "str", n |-> 0, s |-> s]

PyNone == [type |-> "NoneType", n |-> 0, s |-> ""]

PyBytes(s) == [type |-> "bytes", n |-> 0, s |-> s]

\* the foam_signature dict; its other statistics are folded into 'range'
FoamSignature(std_expectation, range) ==
    [type |-> "dict", std_expectation |-> std_expectation, range |-> range]

Keys(dict) == DOMAIN dict \ {"type"}

\* json.dumps raises TypeError on a value it has no encoding for
Serializable(value) ==
    IF value.type = "dict"
    THEN \A k \in Keys(value) : value[k].type \in {"float", "int", "str", "NoneType"}
    ELSE value.type \in {"float", "int", "str", "NoneType"}

\* the JSON literal of a scalar: 45 and 45.0 and "45" are different texts
Literal(value) ==
    CASE value.type = "float" -> [lit |-> "float", n |-> value.n, s |-> ""]
      [] value.type = "int" -> [lit |-> "int", n |-> value.n, s |-> ""]
      [] value.type = "str" -> [lit |-> "string", n |-> 0, s |-> value.s]
      [] OTHER -> [lit |-> "null", n |-> 0, s |-> ""]

\* json.dumps(value, sort_keys=True): the members by key, in no order
dumps(value) ==
    IF value.type = "dict"
    THEN [k \in Keys(value) |-> Literal(value[k])]
    ELSE Literal(value)

\* json.dumps(cert_data, sort_keys=True) of a dict of such values
dumps_dict(data) == [k \in DOMAIN data |-> dumps(data[k])]

\* hashlib.sha256(...).hexdigest(), taken to be collision-free
sha256(text) == <<"sha256", text>>

Without(dict, key) == [k \in DOMAIN dict \ {key} |-> dict[k]]

_generate_certificate(entropy_hash, foam_signature, theta_) ==
    LET cert_data ==
            [entropy_hash |-> PyStr(entropy_hash),
             foam_signature |-> foam_signature,
             \* the hex digest of the signature, which no later step reads
             foam_hash |-> PyStr("foam_hash"),
             theta |-> theta_,
             n_bases |-> PyInt(NumBases),
             device |-> PyStr("ionq_simulator"),
             timestamp |-> PyStr("2025-01-01T00:00:00"),
             version |-> PyStr("1.0.0-pro")]
    IN  [k \in DOMAIN cert_data \cup {"fingerprint"} |->
            IF k = "fingerprint" THEN sha256(dumps_dict(cert_data))
            ELSE cert_data[k]]

\* a Python number in hundredths
Hundredths(value) == IF value.type = "int" THEN 100 * value.n ELSE value.n

Verdict(is_valid, message) == [is_valid |-> is_valid, message |-> message]

verify_certificate(certificate, licensed) ==
    LET foam_sig == certificate["foam_signature"]
        cert_copy == Without(certificate, "fingerprint")
    IN  IF foam_sig.type # "dict" THEN Raised("TypeError")
        ELSE IF "std_expectation" \notin Keys(foam_sig) THEN Raised("KeyError")
        ELSE IF foam_sig.std_expectation.type \notin {"float", "int"}
        THEN Raised("TypeError")
        ELSE IF Hundredths(foam_sig.std_expectation) < WeakFoam
        THEN Returned(Verdict(FALSE, "Foam signature too weak"))
        ELSE IF licensed /\ Hundredths(foam_sig.std_expectation) < ProFoam
        THEN Returned(Verdict(FALSE, "Foam coupling below Pro edition standards"))
        ELSE IF \E k \in DOMAIN cert_copy : ~Serializable(cert_copy[k])
        THEN Raised("TypeError")
        ELSE IF certificate["fingerprint"] # sha256(dumps_dict(cert_copy))
        THEN Returned(Verdict(FALSE, "Certificate tampered"))
        ELSE Returned(Verdict(TRUE, "Valid quantum certificate"))

\* standard deviations of the expectation values, in hundredths
SomeStds == {2, 10, 40}

IssuedCertificates ==
    { _generate_certificate("entropy_hash", FoamSignature(PyFloat(std), PyFloat(80)),
                            PyInt(DefaultTheta)) : std \in SomeStds }

\* what a holder of the certificate may put in place of a field
ForgedValues(field) ==
    IF field = "foam_signature"
    THEN { FoamSignature(std, range) :
              std \in {PyFloat(50), PyStr("0.5")}, range \in {PyFloat(80), PyFloat(90)} }
         \cup { [type |-> "dict", range |-> PyFloat(80)], PyNone }
    ELSE { PyStr("forged"), PyInt(DefaultTheta), PyFloat(DefaultTheta * 100), PyNone,
           PyBytes("forged") }

Presented(issued) ==
    {issued} \cup
    UNION { { [issued EXCEPT ![field] = value] : value \in ForgedValues(field) } :
            field \in DOMAIN issued \ {"fingerprint"} }

InitCertificate ==
    /\ RunIdle
    /\ ExtIdle
    /\ JobsIdle
    /\ BackendIdle
    /\ LicenseIdle
    /\ CallersIdle
    /\ outcome = NoOutcome
    /\ \E issued \in IssuedCertificates, licensed \in BOOLEAN :
        \E certificate \in Presented(issued) :
            args = [fn |-> "verify_certificate", issued |-> issued,
                    certificate |-> certificate, licensed |-> licensed]

VerifyCertificate ==
    /\ args.fn = "verify_certificate"
    /\ ~outcome.done
    /\ outcome' = verify_certificate(args.certificate, args.licensed)
    /\ UNCHANGED <<args, runVars, extVars, jobVars, bkVars, licVars, protoVars>>

NextCertificate == VerifyCertificate

SpecCertificate == InitCertificate /\ [][NextCertificate]_vars

\* some field other than 'fingerprint' no longer has its issued value
Altered ==
    /\ args.certificate["fingerprint"] = args.issued["fingerprint"]
    /\ \E field \in DOMAIN args.issued \ {"fingerprint"} :
        args.certificate[field] # args.issued[field]

\* C23: verify_certificate returns is_valid = False for every certificate
\* in which a field other than 'fingerprint' differs from its issued value,
\* the fingerprint left as issued and the hash collision-free
C23_AlteredCertificateInvalid ==
    (args.fn = "verify_certificate" /\ outcome.done /\ Altered) =>
        /\ outcome.raised = ""
        /\ ~outcome.value.is_valid


=============================================================================
